---- MODULE Spec2Model ----
(***************************************************************************)
(* Model of AzureADUserFetcher (src/AzureADUserFetcher.py): construction   *)
(* of the client (token acquisition), search_user_by_name, and the         *)
(* concurrent thumbnail retrieval through ThreadPoolExecutor/as_completed. *)
(*                                                                         *)
(* Python strings are sequences of one-character strings, bytes are        *)
(* sequences of integers 0..255, dicts are records whose DOMAIN is the set *)
(* of keys present.  The main thread's position is pc; every submitted     *)
(* get_user_thumbnail call is an entry of futures.                         *)
(***************************************************************************)
EXTENDS Integers, Sequences, FiniteSets, TLC

VARIABLES
    pc,                  \* position of the main thread
    access_token,        \* self.access_token (Unset until assigned)
    retrieve_thumbnails, \* self.retrieve_thumbnails (Unset until assigned)
    token_requests,      \* number of POSTs sent to the token endpoint
    token_status,        \* status the token endpoint answered with (0: no answer yet)
    name,                \* argument of search_user_by_name
    search_requests,     \* URLs of the GETs sent to the search endpoint
    search_status,       \* status the search endpoint answered with (0: no answer yet)
    response_value,      \* the users as they arrived in the search response
    users,               \* the dicts of `users`, mutated in place by line 66
    futures,             \* the submitted tasks, in submission order
    photo_requests,      \* ids of the GETs sent to the photo endpoint, in order
    finished_order,      \* tasks in the order their futures finished
    initially_finished,  \* futures already finished when as_completed took its snapshot
    yielded,             \* tasks in the order as_completed yielded them
    user_details,        \* the list user_details: references (indices) into users
    exc                  \* the exception leaving the current call, or NoExc

vars == <<pc, access_token, retrieve_thumbnails, token_requests, token_status,
          name, search_requests, search_status, response_value, users, futures, photo_requests,
          finished_order, initially_finished, yielded, user_details, exc>>

----------------------------------------------------------------------------
(* Bounds of the model *)

MaxUsers == 2      \* longest `value` array of a search response

----------------------------------------------------------------------------
(* Python values *)

Unset == "<unset>"
NoExc == "<none>"
None == [type |-> "NoneType"]
Str(s) == [type |-> "str", value |-> s]

Range(s) == {s[i] : i \in DOMAIN s}

----------------------------------------------------------------------------
(* The remote endpoints: what a response may be *)

HttpStatuses == {200, 302, 401, 500}

TokenBodies == {[access_token |-> "tok", token_type |-> "Bearer"],
                [error |-> "invalid_client"]}

NotJson == [notjson |-> TRUE]

\* A directory user as the search endpoint returns it; the id may be missing.
UserWithId(i) == [id |-> i, displayName |-> "Jane"]
UserWithoutId == [displayName |-> "Jane"]

UserLists ==
    UNION {{[i \in 1..n |-> IF i \in withId THEN UserWithId(i) ELSE UserWithoutId]
              : withId \in SUBSET (1..n)} : n \in 0..MaxUsers}

SearchBodies == {[value |-> ul] : ul \in UserLists}
                  \cup {[error |-> "x"], NotJson}

PhotoContents == {<<>>, <<77, 97>>}
PhotoResponses == {[status |-> 200, content |-> c] : c \in PhotoContents}
                    \cup {[status |-> s, content |-> <<>>] : s \in {404, 500}}
NoResponse == [status |-> 0, content |-> <<>>]   \* no response received (yet)
ConnectionFailure == [raised |-> "ConnectionError"]
PhotoOutcomes == PhotoResponses \cup {ConnectionFailure}

----------------------------------------------------------------------------
(* Library functions used by the code, as they compute *)

\* Faulty variants of raise_for_status: one that lets client errors pass, one
\* that lets server errors pass.
raise_for_status_5xx_only(status) == 500 <= status /\ status < 600
raise_for_status_4xx_only(status) == 400 <= status /\ status < 500

\* requests.Response.raise_for_status: raises HTTPError for 4xx and 5xx.
raise_for_status(status) == 400 <= status /\ status < 600

B64Alphabet ==
    <<"A","B","C","D","E","F","G","H","I","J","K","L","M","N","O","P",
      "Q","R","S","T","U","V","W","X","Y","Z","a","b","c","d","e","f",
      "g","h","i","j","k","l","m","n","o","p","q","r","s","t","u","v",
      "w","x","y","z","0","1","2","3","4","5","6","7","8","9","+","/">>

B64Char(n) == B64Alphabet[n + 1]

\* base64.b64encode(...).decode('utf-8')
RECURSIVE b64encode(_)
b64encode(bytes) ==
    IF Len(bytes) = 0 THEN <<>>
    ELSE IF Len(bytes) = 1 THEN
        <<B64Char(bytes[1] \div 4), B64Char((bytes[1] % 4) * 16), "=", "=">>
    ELSE IF Len(bytes) = 2 THEN
        <<B64Char(bytes[1] \div 4),
          B64Char((bytes[1] % 4) * 16 + bytes[2] \div 16),
          B64Char((bytes[2] % 16) * 4), "=">>
    ELSE
        <<B64Char(bytes[1] \div 4),
          B64Char((bytes[1] % 4) * 16 + bytes[2] \div 16),
          B64Char((bytes[2] % 16) * 4 + bytes[3] \div 64),
          B64Char(bytes[3] % 64)>>
          \o b64encode(SubSeq(bytes, 4, Len(bytes)))

----------------------------------------------------------------------------
(* The program *)

Init ==
    /\ pc = "new"
    /\ access_token = Unset
    /\ retrieve_thumbnails = Unset
    /\ token_requests = 0
    /\ token_status = 0
    /\ name = Unset
    /\ search_requests = <<>>
    /\ search_status = 0
    /\ response_value = <<>>
    /\ users = <<>>
    /\ futures = <<>>
    /\ photo_requests = <<>>
    /\ finished_order = <<>>
    /\ initially_finished = {}
    /\ yielded = <<>>
    /\ user_details = <<>>
    /\ exc = NoExc

searchVars == <<name, search_requests, search_status, response_value, users, futures,
                photo_requests, finished_order, initially_finished, yielded,
                user_details>>

\* get_access_token: the outcome for one response of the token endpoint.
get_access_token(status, body) ==
    IF raise_for_status(status) THEN [raised |-> "HTTPError"]
    ELSE IF "access_token" \notin DOMAIN body THEN [raised |-> "KeyError"]
    ELSE [returned |-> body.access_token]

\* AzureADUserFetcher(tenant_id, client_id, client_secret, retrieve_thumbnails=rt)
Construct(rt, status, body) ==
    /\ pc = "new"
    /\ token_requests' = token_requests + 1
    /\ token_status' = status
    /\ LET r == get_access_token(status, body)
       IN  IF "raised" \in DOMAIN r
           THEN /\ pc' = "ctor_raised"
                /\ exc' = r.raised
                /\ UNCHANGED <<access_token, retrieve_thumbnails>>
           ELSE /\ pc' = "ready"
                /\ access_token' = r.returned
                /\ retrieve_thumbnails' = rt
                /\ exc' = NoExc
    /\ UNCHANGED searchVars

\* Lines 54-55: the f-strings that build the filter and the URL.
filter_query(n) == <<"startswith(displayName, ", "'">> \o n \o <<"'", ")">>
search_url(n) == <<"https://graph.microsoft.com/v1.0/users", "?$filter=">> \o filter_query(n)

\* Line 58: response.json().get('value', [])
json_get_value(body) == IF "value" \in DOMAIN body THEN body.value ELSE <<>>

\* Faulty variant: the flag is ignored and thumbnails are always retrieved.
thumbnails_always == TRUE

\* Line 61: if self.retrieve_thumbnails
thumbnails_enabled == retrieve_thumbnails = TRUE

\* search_user_by_name up to line 61; without thumbnails, up to its return.
Search(n, status, body) ==
    /\ pc = "ready"
    /\ name' = n
    /\ search_requests' = Append(search_requests, search_url(n))
    /\ search_status' = status
    /\ IF raise_for_status(status)
       THEN /\ pc' = "raised"
            /\ exc' = "HTTPError"
            /\ UNCHANGED <<response_value, users, user_details>>
       ELSE IF body = NotJson
       THEN /\ pc' = "raised"
            /\ exc' = "JSONDecodeError"
            /\ UNCHANGED <<response_value, users, user_details>>
       ELSE /\ response_value' = json_get_value(body)
            /\ users' = json_get_value(body)
            /\ exc' = NoExc
            /\ IF thumbnails_enabled
               THEN /\ pc' = "submit"
                    /\ user_details' = <<>>
               ELSE /\ pc' = "returned"
                    /\ user_details' = [i \in 1..Len(json_get_value(body)) |-> i]
    /\ UNCHANGED <<access_token, retrieve_thumbnails, token_requests, token_status,
                   futures, photo_requests, finished_order, initially_finished, yielded>>

\* Line 63: one step of the dict comprehension, executor.submit for the next user.
Submit ==
    /\ pc = "submit"
    /\ Len(futures) < Len(users)
    /\ LET i == Len(futures) + 1
       IN  IF "id" \in DOMAIN users[i]
           THEN /\ futures' = Append(futures,
                       [user |-> i, arg |-> users[i].id, state |-> "PENDING",
                        response |-> NoResponse, result |-> Unset, exception |-> NoExc])
                /\ UNCHANGED <<pc, exc>>
           ELSE /\ pc' = "shutdown"
                /\ exc' = "KeyError"
                /\ UNCHANGED futures
    /\ UNCHANGED <<access_token, retrieve_thumbnails, token_requests, token_status,
                   name, search_requests, search_status, response_value, users, photo_requests,
                   finished_order, initially_finished, yielded, user_details>>

\* Line 64: as_completed(futures) snapshots the futures that are already finished.
AsCompleted ==
    /\ pc = "submit"
    /\ Len(futures) = Len(users)
    /\ initially_finished' = {t \in DOMAIN futures : futures[t].state = "FINISHED"}
    /\ pc' = "collect"
    /\ UNCHANGED <<access_token, retrieve_thumbnails, token_requests, token_status,
                   name, search_requests, search_status, response_value, users, futures,
                   photo_requests, finished_order, yielded, user_details, exc>>

\* A worker thread takes a queued task and get_user_thumbnail sends its GET (line 79).
StartTask(t) ==
    /\ t \in DOMAIN futures
    /\ futures[t].state = "PENDING"
    /\ futures' = [futures EXCEPT ![t].state = "RUNNING"]
    /\ photo_requests' = Append(photo_requests, futures[t].arg)
    /\ UNCHANGED <<pc, access_token, retrieve_thumbnails, token_requests,
                   token_status, name, search_requests, search_status, response_value, users, finished_order,
                   initially_finished, yielded, user_details, exc>>

\* Faulty variant: the body is encoded whatever the status.
get_user_thumbnail_any_status(response) == Str(b64encode(response.content))

\* Lines 81-87: what get_user_thumbnail returns for a response.
get_user_thumbnail(response) ==
    IF response.status = 200
    THEN Str(b64encode(response.content))
    ELSE None

\* The GET of a running task ends (a response, or requests.get raises) and the
\* future finishes with the result or the exception.
FinishTask(t, outcome) ==
    /\ t \in DOMAIN futures
    /\ futures[t].state = "RUNNING"
    /\ futures' = [futures EXCEPT ![t] =
           IF "raised" \in DOMAIN outcome
           THEN [@ EXCEPT !.state = "FINISHED", !.exception = outcome.raised]
           ELSE [@ EXCEPT !.state = "FINISHED", !.response = outcome,
                          !.result = get_user_thumbnail(outcome)]]
    /\ finished_order' = Append(finished_order, t)
    /\ UNCHANGED <<pc, access_token, retrieve_thumbnails, token_requests,
                   token_status, name, search_requests, search_status, response_value, users, photo_requests,
                   initially_finished, yielded, user_details, exc>>

\* Faulty variant: any finished future may be yielded next, whatever the order
\* in which the futures finished.
as_completed_unordered ==
    {t \in DOMAIN futures : futures[t].state = "FINISHED"} \ Range(yielded)

\* The futures as_completed may yield next: those of its snapshot first, in the
\* arbitrary order of a set, then the others in the order they finished.
as_completed_next ==
    LET rest == initially_finished \ Range(yielded)
        later == SelectSeq(finished_order, LAMBDA t : t \notin initially_finished
                                                      /\ t \notin Range(yielded))
    IN  IF rest # {} THEN rest
        ELSE IF Len(later) > 0 THEN {later[1]}
        ELSE {}

\* Faulty variant: the user is taken by position in the order of completion.
futures_lookup_positional(t) == Len(yielded) + 1

\* Line 65: user = futures[future]
futures_lookup(t) == futures[t].user

\* Lines 64-67: one iteration of the loop over as_completed.
Collect(t) ==
    /\ pc = "collect"
    /\ t \in as_completed_next
    /\ yielded' = Append(yielded, t)
    /\ IF futures[t].exception # NoExc
       THEN /\ pc' = "shutdown"
            /\ exc' = futures[t].exception
            /\ UNCHANGED <<users, user_details>>
       ELSE /\ users' = [users EXCEPT ![futures_lookup(t)] =
                  [k \in DOMAIN @ \cup {"Thumbnail"} |->
                      IF k = "Thumbnail" THEN futures[t].result ELSE @[k]]]
            /\ user_details' = Append(user_details, futures_lookup(t))
            /\ UNCHANGED <<pc, exc>>
    /\ UNCHANGED <<access_token, retrieve_thumbnails, token_requests, token_status,
                   name, search_requests, search_status, response_value, futures, photo_requests,
                   finished_order, initially_finished>>

\* Line 64: as_completed is exhausted, the loop ends.
EndLoop ==
    /\ pc = "collect"
    /\ Len(yielded) = Len(futures)
    /\ pc' = "shutdown"
    /\ UNCHANGED <<access_token, retrieve_thumbnails, token_requests, token_status,
                   name, search_requests, search_status, response_value, users, futures,
                   photo_requests, finished_order, initially_finished, yielded,
                   user_details, exc>>

\* Faulty variant: shutdown(wait=False), the block is left at once.
executor_not_joined == TRUE

\* Line 62: leaving the with block calls executor.shutdown(wait=True), which
\* joins the worker threads: they exit once every queued task has run.
executor_joined == \A t \in DOMAIN futures : futures[t].state = "FINISHED"

\* Lines 62 and 71: the with block is left and the call returns or raises.
Leave ==
    /\ pc = "shutdown"
    /\ executor_joined
    /\ pc' = IF exc = NoExc THEN "returned" ELSE "raised"
    /\ UNCHANGED <<access_token, retrieve_thumbnails, token_requests, token_status,
                   name, search_requests, search_status, response_value, users, futures,
                   photo_requests, finished_order, initially_finished, yielded,
                   user_details, exc>>

\* The value search_user_by_name returns (line 71).
Returned == [i \in DOMAIN user_details |-> users[user_details[i]]]

SearchNames == {<<"J">>, <<"O", "'", "B">>}

Next ==
    \/ \E rt \in BOOLEAN, status \in HttpStatuses, body \in TokenBodies :
           Construct(rt, status, body)
    \/ \E n \in SearchNames, status \in HttpStatuses, body \in SearchBodies :
           Search(n, status, body)
    \/ Submit
    \/ AsCompleted
    \/ \E t \in DOMAIN futures : StartTask(t)
    \/ \E t \in DOMAIN futures, outcome \in PhotoOutcomes : FinishTask(t, outcome)
    \/ \E t \in DOMAIN futures : Collect(t)
    \/ EndLoop
    \/ Leave

Spec == Init /\ [][Next]_vars

----------------------------------------------------------------------------
(* Vocabulary of the properties *)

Ended == pc \in {"returned", "raised"}
EnabledCall == pc \in {"submit", "collect", "shutdown", "returned", "raised"}
                 /\ retrieve_thumbnails = TRUE
                 /\ search_status # 0 /\ ~raise_for_status(search_status)
                 /\ exc # "JSONDecodeError"
AllSubmitted == Len(futures) = Len(users)
AllFinished == \A t \in DOMAIN futures : futures[t].state = "FINISHED"
Responded(t) == futures[t].state = "FINISHED" /\ futures[t].exception = NoExc
FetchFailed(t) == futures[t].state = "FINISHED"
                    /\ (futures[t].exception # NoExc \/ futures[t].response.status # 200)
CarriesBlob(r) == "Thumbnail" \in DOMAIN r /\ r.Thumbnail # None
\* The task submitted for the id of record r.
TasksFor(r) == {t \in DOMAIN futures : "id" \in DOMAIN r /\ futures[t].arg = r.id}
Success(status) == status \in 200..299

----------------------------------------------------------------------------
(* C1: with thumbnails enabled, when the fetch of exactly one of the N      *)
(* records fails (a non-200 response or an exception raised by              *)
(* get_user_thumbnail) and all the others succeed, the call returns all N   *)
(* records, N-1 of them with a blob and the failing one without, and no     *)
(* exception escapes.                                                       *)
C1_IsolatedFailure ==
    (/\ EnabledCall /\ Ended /\ AllSubmitted /\ AllFinished
     /\ Cardinality({t \in DOMAIN futures : FetchFailed(t)}) = 1)
    => /\ pc = "returned"
       /\ exc = NoExc
       /\ Len(Returned) = Len(response_value)
       /\ \A i \in DOMAIN Returned :
              CarriesBlob(Returned[i])
                  <=> \A t \in TasksFor(Returned[i]) : ~FetchFailed(t)

(* C2: with thumbnails enabled, when control has left search_user_by_name,  *)
(* by return or by exception, every submitted get_user_thumbnail task has   *)
(* finished, whatever the interleaving of the workers.                      *)
C2_NoFetchInFlightAfterCall ==
    Ended => \A t \in DOMAIN futures : futures[t].state = "FINISHED"

\* The call was left by the exception of one fetch while other submitted
\* fetches had not been collected; they have all finished.
C2_Witness ==
    /\ pc = "raised"
    /\ exc = "ConnectionError"
    /\ Len(futures) >= 2
    /\ Len(yielded) < Len(futures)

(* C3: whatever the order of completion, the Thumbnail of a record is the   *)
(* outcome of the fetch issued for that record's own id.                    *)
C3_AttachedPerRecord ==
    /\ \A u \in DOMAIN users :
           "Thumbnail" \in DOMAIN users[u] =>
               \E t \in TasksFor(users[u]) :
                   /\ Responded(t)
                   /\ users[u].Thumbnail = get_user_thumbnail(futures[t].response)
    /\ (pc = "returned" /\ retrieve_thumbnails = TRUE) =>
           \A i \in DOMAIN Returned :
               /\ "Thumbnail" \in DOMAIN Returned[i]
               /\ \E t \in TasksFor(Returned[i]) :
                      Returned[i].Thumbnail = get_user_thumbnail(futures[t].response)

\* Two records whose fetches finished in the reverse of the request order and
\* with different outcomes; each is returned with its own.
C3_Witness ==
    /\ pc = "returned"
    /\ retrieve_thumbnails = TRUE
    /\ Len(futures) = 2
    /\ Len(Returned) = 2
    /\ finished_order = <<2, 1>>
    /\ futures[1].response.status = 200
    /\ futures[2].response.status = 404
    /\ \E i \in DOMAIN Returned : Returned[i].id = 1 /\ CarriesBlob(Returned[i])
    /\ \E i \in DOMAIN Returned : Returned[i].id = 2 /\ ~CarriesBlob(Returned[i])

(* C4: a record gets a photo blob if and only if the photo endpoint         *)
(* answered 200 (the base64 text of the body, non-empty for a non-empty     *)
(* body); any other status gives None and never makes the call raise.       *)
C4_BlobIffStatus200 ==
    /\ \A t \in DOMAIN futures :
           Responded(t) =>
               /\ futures[t].result # None <=> futures[t].response.status = 200
               /\ futures[t].response.status = 200 =>
                      /\ futures[t].result = Str(b64encode(futures[t].response.content))
                      /\ futures[t].response.content # <<>> =>
                             futures[t].result.value # <<>>
    /\ (pc = "returned" /\ retrieve_thumbnails = TRUE) =>
           \A i \in DOMAIN Returned : \A t \in TasksFor(Returned[i]) :
               CarriesBlob(Returned[i]) <=> futures[t].response.status = 200
    /\ (EnabledCall /\ pc \in {"shutdown", "raised"} /\ exc # NoExc) =>
           \/ exc = "KeyError"
           \/ \E t \in DOMAIN futures : futures[t].exception = exc

\* The scenario of two records: 200 with a body for id 1, 404 for id 2.
C4_Witness ==
    /\ pc = "returned"
    /\ retrieve_thumbnails = TRUE
    /\ Len(futures) = 2
    /\ Len(Returned) = 2
    /\ futures[1].response = [status |-> 200, content |-> <<77, 97>>]
    /\ futures[2].response.status = 404
    /\ \E i \in DOMAIN Returned :
           Returned[i].id = 1 /\ Returned[i].Thumbnail = Str(<<"T", "W", "E", "=">>)
    /\ \E i \in DOMAIN Returned : Returned[i].id = 2 /\ Returned[i].Thumbnail = None

(* C5: with retrieve_thumbnails false, the call returns the records of the  *)
(* search response unchanged, in order, without a Thumbnail field, and no   *)
(* request goes to the photo endpoint.                                      *)
C5_PassThrough ==
    (pc \notin {"new", "ctor_raised"} /\ retrieve_thumbnails = FALSE) =>
        /\ photo_requests = <<>>
        /\ futures = <<>>
        /\ pc = "returned" =>
               /\ Returned = response_value
               /\ \A i \in DOMAIN Returned : "Thumbnail" \notin DOMAIN Returned[i]

C5_Witness ==
    /\ pc = "returned"
    /\ retrieve_thumbnails = FALSE
    /\ Len(response_value) = 2
    /\ Returned = response_value

(* C6, as claimed: when the token endpoint answers with a non-success       *)
(* status, construction fails, no token is stored, the token request is not *)
(* retried and no search or photo request is ever issued.                   *)
ConstructionFailed ==
    /\ pc = "ctor_raised"
    /\ exc # NoExc
    /\ access_token = Unset
    /\ token_requests = 1
    /\ search_requests = <<>>
    /\ photo_requests = <<>>

SearchFailed ==
    /\ pc = "raised"
    /\ exc # NoExc
    /\ user_details = <<>>
    /\ Len(search_requests) = 1
    /\ futures = <<>>
    /\ photo_requests = <<>>

EmptyResultIsNoError ==
    (/\ Success(search_status) /\ exc # "JSONDecodeError"
     /\ response_value = <<>>)
    => /\ exc = NoExc
       /\ pc # "raised"
       /\ photo_requests = <<>>
       /\ pc = "returned" => Returned = <<>>

RECURSIVE ScanLiteral(_, _, _)
ScanLiteral(f, i, acc) ==
    IF i > Len(f) THEN [ok |-> FALSE, literal |-> acc, rest |-> <<>>]
    ELSE IF f[i] # "'" THEN ScanLiteral(f, i + 1, Append(acc, f[i]))
    ELSE IF i < Len(f) /\ f[i + 1] = "'" THEN ScanLiteral(f, i + 2, Append(acc, "'"))
    ELSE [ok |-> TRUE, literal |-> acc, rest |-> SubSeq(f, i + 1, Len(f))]

ParseFilter(f) ==
    IF Len(f) < 2 \/ f[1] # "startswith(displayName, " \/ f[2] # "'"
    THEN [ok |-> FALSE, literal |-> <<>>]
    ELSE LET r == ScanLiteral(f, 3, <<>>)
         IN  [ok |-> r.ok /\ r.rest = <<")">>, literal |-> r.literal]

(* C8: for every name prefix, also one with a single quote, the filter of   *)
(* the search request is well formed and its string literal is the prefix.  *)
C8_FilterWellFormed ==
    \A i \in DOMAIN search_requests :
        LET p == ParseFilter(SubSeq(search_requests[i], 3, Len(search_requests[i])))
        IN  p.ok /\ p.literal = name

(* C9: on a successful search response the call returns the records of the  *)
(* value array, and a missing field or a missing value array never causes   *)
(* an error, with thumbnails enabled or not, also for a record without id.  *)
C9_MissingFieldNoError ==
    /\ (pc \in {"submit", "collect", "shutdown", "returned", "raised"}
          /\ Success(search_status) /\ exc # "JSONDecodeError") => exc # "KeyError"
    /\ (pc = "returned" /\ retrieve_thumbnails = FALSE) => Returned = response_value

(* C10, as claimed: with thumbnails enabled and no fetch raising, the       *)
(* returned sequence has each record of the response exactly once, one      *)
(* photo request was issued per record, and the order is the order in which *)
(* the fetches completed.                                                   *)
IsPermutationOfResponse ==
    /\ Len(user_details) = Len(response_value)
    /\ \A u \in DOMAIN response_value :
           Cardinality({i \in DOMAIN user_details : user_details[i] = u}) = 1
    /\ \A i \in DOMAIN Returned :
           \A k \in DOMAIN response_value[user_details[i]] :
               Returned[i][k] = response_value[user_details[i]][k]
    /\ Len(photo_requests) = Len(response_value)
    /\ \A u \in DOMAIN response_value :
           Cardinality({i \in DOMAIN photo_requests :
                           photo_requests[i] = response_value[u].id}) = 1

NoFetchRaised == \A t \in DOMAIN futures : futures[t].exception = NoExc

C10_Original ==
    (pc = "returned" /\ retrieve_thumbnails = TRUE /\ NoFetchRaised) =>
        /\ IsPermutationOfResponse
        /\ user_details = [i \in DOMAIN finished_order |-> futures[finished_order[i]].user]

(* C10, amended: the returned sequence is such a permutation; the records   *)
(* whose fetch had finished before as_completed was called come first, in   *)
(* no particular order, and the others follow in the order in which their   *)
(* fetches completed.                                                       *)
Position(seq, x) == CHOOSE i \in DOMAIN seq : seq[i] = x

C10_PermutationInYieldOrder ==
    (pc = "returned" /\ retrieve_thumbnails = TRUE /\ NoFetchRaised) =>
        /\ IsPermutationOfResponse
        /\ \A a, b \in DOMAIN futures :
               (/\ a # b
                /\ b \notin initially_finished
                /\ Position(finished_order, a) < Position(finished_order, b))
               => Position(user_details, futures[a].user)
                      < Position(user_details, futures[b].user)

\* Both fetches finished after as_completed was called, the second record's
\* first: the records come back in the reverse of the response's order.
C10_Witness ==
    /\ pc = "returned"
    /\ retrieve_thumbnails = TRUE
    /\ Len(futures) = 2
    /\ NoFetchRaised
    /\ initially_finished = {}
    /\ finished_order = <<2, 1>>
    /\ user_details = <<2, 1>>

====
